---- MODULE Spec2Model ----
(***************************************************************************)
(* Email verification engine of Owoblo/emailVerifier.                      *)
(*                                                                         *)
(* One verification of one address by the request handler (the Netlify     *)
(* functions and the Express server share the same loop body): syntax      *)
(* check, DNS check, SMTP check, aggregation.  The SMTP probe              *)
(* (checkSMTPHandshake) is modelled event by event: every 'data', 'error'  *)
(* and timer callback is one action.  The catch branch of the data         *)
(* callback is not an action of Spec: socket.write and socket.end do not   *)
(* throw when given strings, they report failures through the 'error'      *)
(* event.  FaultSpec adds the socket calls that throw.                     *)
(*                                                                         *)
(* CallSpec applies the pure functions (generateEmailVariations,           *)
(* verifyEmailSyntax) to arguments drawn from bounded sets.  EndpointSpec  *)
(* is one request to the verify or the generate endpoint: the parse of the *)
(* body and the loop over the addresses, one iteration per step, with the  *)
(* network fixed for the request; it also carries the loop of the Express  *)
(* routes as a function, to compare the two servers.  HandlerSpec is one   *)
(* request whose loop is run event by event, each candidate through the    *)
(* actions of Spec.  LookupSpec is the smart-lookup endpoint of one        *)
(* process, request after request, with its two caches; the replies of     *)
(* the OpenAI and the search API are choices of the environment.           *)
(*                                                                         *)
(* Strings the code inspects character by character (the address, the      *)
(* peer's reply chunk) are sequences of one-character strings.  A          *)
(* CheckResult is [valid, message]; the JavaScript tri-state valid is one  *)
(* of "true", "false", "null".                                             *)
(***************************************************************************)
EXTENDS Integers, Sequences, FiniteSets, TLC

(***************************************************************************)
(* Bounds of the model                                                     *)
(***************************************************************************)
\* longest address, in characters
MaxLen == 6
\* most replies one peer sends that the data callback passes over
MaxIgnored == 1
\* most events (data, error) delivered to one probe after it resolved
MaxLate == 2
\* longest first or last name drawn from the name alphabet, in characters
MaxName == 2
\* longest text posted to the verify endpoint, in characters
MaxText == 3
\* most people in one request to the generate endpoint
MaxPeople == 2

(***************************************************************************)
(* Inputs                                                                  *)
(***************************************************************************)
Alphabet == {"a", ".", "@"}

Emails == UNION {[1..n -> Alphabet] : n \in 0..MaxLen}

\* "full" stands for any value that is none of syntax, dns, smtp
Levels == {"syntax", "dns", "smtp", "full"}

\* answers of dns.resolveMx: a list of records in the resolver's order
MxAnswers ==
    { <<>>,
      <<[priority |-> 10, exchange |-> "mx1"]>>,
      <<[priority |-> 20, exchange |-> "mx2"], [priority |-> 10, exchange |-> "mx1"],
        [priority |-> 30, exchange |-> "mx3"]>>,
      <<[priority |-> 30, exchange |-> "mx3"], [priority |-> 20, exchange |-> "mx2"]>> }

\* errors of dns.resolveMx: domain not found, and a transient resolver error
MxErrors ==
    { [code |-> "ENOTFOUND", message |-> "queryMx ENOTFOUND"],
      [code |-> "ETIMEOUT", message |-> "queryMx ETIMEOUT"] }

\* no resolveMx call has settled
NoAnswer == [ok |-> FALSE, records |-> <<>>, error |-> [code |-> "", message |-> ""]]

MxOutcomes ==
    {[ok |-> TRUE, records |-> r, error |-> [code |-> "", message |-> ""]] : r \in MxAnswers}
    \cup {[ok |-> FALSE, records |-> <<>>, error |-> e] : e \in MxErrors}

\* the first characters of a chunk the peer sends
Chunks ==
    { <<"2", "2", "0", " ">>, <<"2", "5", "0", " ">>, <<"5", "5", "0", " ">>,
      <<"4", "5", "0", " ">>, <<"o", "k">> }

\* messages of socket 'error' events
ConnErrors == {"connect ECONNREFUSED", "read ECONNRESET"}

(***************************************************************************)
(* Strings                                                                 *)
(***************************************************************************)
RECURSIVE Count(_, _)
Count(s, c) ==
    IF s = <<>> THEN 0
    ELSE (IF Head(s) = c THEN 1 ELSE 0) + Count(Tail(s), c)

Includes(s, c) == \E i \in 1..Len(s) : s[i] = c

\* String.prototype.split with a one-character separator
RECURSIVE Split(_, _)
Split(s, c) ==
    IF ~Includes(s, c) THEN <<s>>
    ELSE LET i == CHOOSE k \in 1..Len(s) : s[k] = c /\ \A j \in 1..(k - 1) : s[j] # c
         IN  <<SubSeq(s, 1, i - 1)>> \o Split(SubSeq(s, i + 1, Len(s)), c)

\* String.prototype.substring(0, n)
Substring0(s, n) == SubSeq(s, 1, IF Len(s) < n THEN Len(s) ELSE n)

Digits == {"0", "1", "2", "3", "4", "5", "6", "7", "8", "9"}

DigitVal(c) ==
    CASE c = "0" -> 0 [] c = "1" -> 1 [] c = "2" -> 2 [] c = "3" -> 3 [] c = "4" -> 4
      [] c = "5" -> 5 [] c = "6" -> 6 [] c = "7" -> 7 [] c = "8" -> 8 [] c = "9" -> 9

\* the result of parseInt on a string with no leading digit; every parsed
\* code is >= 0 because no chunk carries a sign
NaN == -1

RECURSIVE DigitsValue(_, _)
DigitsValue(s, acc) ==
    IF s = <<>> \/ Head(s) \notin Digits THEN acc
    ELSE DigitsValue(Tail(s), 10 * acc + DigitVal(Head(s)))

\* parseInt(str): the value of the leading decimal digits, NaN when none
parseInt(s) ==
    IF s = <<>> \/ Head(s) \notin Digits THEN NaN ELSE DigitsValue(s, 0)

\* `${code}` in a template string
CodeText(code) == IF code = NaN THEN "NaN" ELSE ToString(code)

UpperCase ==
    <<"A", "B", "C", "D", "E", "F", "G", "H", "I", "J", "K", "L", "M",
      "N", "O", "P", "Q", "R", "S", "T", "U", "V", "W", "X", "Y", "Z">>

LowerCase ==
    <<"a", "b", "c", "d", "e", "f", "g", "h", "i", "j", "k", "l", "m",
      "n", "o", "p", "q", "r", "s", "t", "u", "v", "w", "x", "y", "z">>

UpperLetters == {UpperCase[k] : k \in 1..26}

\* the lower-case letter of each upper-case letter
LowerOf == [c \in UpperLetters |-> LowerCase[CHOOSE k \in 1..26 : UpperCase[k] = c]]

\* String.prototype.toLowerCase
toLowerCase(s) ==
    [i \in 1..Len(s) |-> IF s[i] \in UpperLetters THEN LowerOf[s[i]] ELSE s[i]]

WhiteSpace == {" ", "\n", "\t"}

RECURSIVE trimStart(_)
trimStart(s) ==
    IF s # <<>> /\ Head(s) \in WhiteSpace THEN trimStart(Tail(s)) ELSE s

RECURSIVE trimEnd(_)
trimEnd(s) ==
    IF s # <<>> /\ s[Len(s)] \in WhiteSpace THEN trimEnd(SubSeq(s, 1, Len(s) - 1)) ELSE s

\* String.prototype.trim
trim(s) == trimEnd(trimStart(s))

\* s begins with the characters of prefix
StartsWith(s, prefix) ==
    /\ Len(s) >= Len(prefix)
    /\ SubSeq(s, 1, Len(prefix)) = prefix

DropPrefix(s, prefix) == SubSeq(s, Len(prefix) + 1, Len(s))

Letters == {LowerCase[k] : k \in 1..26} \cup UpperLetters

(***************************************************************************)
(* verifyEmailSyntax                                                       *)
(***************************************************************************)
CheckResult(v, m) == [valid |-> v, message |-> m]

\* the field of a verdict that was never assigned
Absent == [valid |-> "absent", message |-> ""]

Present(c) == c # Absent

\* one label sequence without empty labels: no leading, trailing or doubled dot
DotAtoms(s) ==
    /\ s # <<>>
    /\ s[1] # "."
    /\ s[Len(s)] # "."
    /\ \A i \in 1..(Len(s) - 1) : ~(s[i] = "." /\ s[i + 1] = ".")

\* the characters the tester expression of email-validator takes in a local
\* part, apart from the dot and the two quote characters (no address of the
\* model has one)
LocalChars ==
    Letters \cup Digits
    \cup {"-", "!", "#", "$", "%", "&", "*", "+", "/", "=", "?", "^", "_",
          "{", "|", "}", "~"}

\* the characters it takes in a domain, apart from the dot and the hyphen
\* (no domain of the model has a hyphen)
DomainChars == Letters \cup Digits

\* validator.validate of the email-validator package: the tester regular
\* expression (dot-atom local part, dotted domain whose last label begins
\* with a letter and has two characters or more) and its length limits
validatorValidate(email) ==
    /\ email # <<>>
    /\ Len(email) <= 254
    /\ Count(email, "@") = 1
    /\ LET parts == Split(email, "@")
           labels == Split(parts[2], ".")
       IN  /\ DotAtoms(parts[1])
           /\ \A i \in 1..Len(parts[1]) : parts[1][i] \in LocalChars \cup {"."}
           /\ DotAtoms(parts[2])
           /\ \A i \in 1..Len(parts[2]) : parts[2][i] \in DomainChars \cup {"."}
           /\ labels[Len(labels)][1] \in Letters
           /\ Len(labels) >= 2
           /\ Len(labels[Len(labels)]) >= 2
           /\ Len(parts[1]) <= 64
           /\ \A i \in 1..Len(labels) : Len(labels[i]) <= 63

\* the dot of the domain looked for before the two parts are tested
verifyEmailSyntax_DotFirst(email) ==
    IF email = <<>> THEN CheckResult("false", "Email is empty or invalid type")
    ELSE IF Count(email, "@") # 1
    THEN CheckResult("false",
             IF Count(email, "@") = 0 THEN "Missing @ symbol" ELSE "Too many @ symbols")
    ELSE LET parts == Split(email, "@")
             localPart == parts[1]
             domain == parts[2]
         IN  IF ~Includes(domain, ".")
             THEN CheckResult("false", "Domain must contain at least one dot")
             ELSE IF localPart = <<>> THEN CheckResult("false", "Local part (before @) is empty")
             ELSE IF domain = <<>> THEN CheckResult("false", "Domain part (after @) is empty")
             ELSE IF validatorValidate(email) THEN CheckResult("true", "Valid email format")
             ELSE CheckResult("false", "Invalid email format")

verifyEmailSyntax(email) ==
    IF email = <<>> THEN CheckResult("false", "Email is empty or invalid type")
    ELSE IF Count(email, "@") # 1
    THEN CheckResult("false",
             IF Count(email, "@") = 0 THEN "Missing @ symbol" ELSE "Too many @ symbols")
    ELSE LET parts == Split(email, "@")
             localPart == parts[1]
             domain == parts[2]
         IN  IF localPart = <<>> THEN CheckResult("false", "Local part (before @) is empty")
             ELSE IF domain = <<>> THEN CheckResult("false", "Domain part (after @) is empty")
             ELSE IF ~Includes(domain, ".")
             THEN CheckResult("false", "Domain must contain at least one dot")
             ELSE IF validatorValidate(email) THEN CheckResult("true", "Valid email format")
             ELSE CheckResult("false", "Invalid email format")

(***************************************************************************)
(* verifyEmailDNS                                                          *)
(***************************************************************************)
\* email.split('@')[1]; undefined is the empty sequence
DomainOf(email) ==
    LET parts == Split(email, "@") IN IF Len(parts) >= 2 THEN parts[2] ELSE <<>>

\* verifyEmailDNS reaches its resolveMx call
DnsCallsResolver(email) == Includes(email, "@") /\ DomainOf(email) # <<>>

\* the result verifyEmailDNS returns without resolving
DnsPrecheck(email) ==
    IF ~Includes(email, "@") THEN CheckResult("false", "Email missing @ symbol")
    ELSE CheckResult("false", "Invalid domain")

\* a transient resolver error reported as indeterminate
DnsResult_TransientNull(o) ==
    IF o.ok
    THEN IF Len(o.records) > 0
         THEN CheckResult("true", "Domain has " \o ToString(Len(o.records)) \o " MX record(s)")
         ELSE CheckResult("false", "No MX records found")
    ELSE IF o.error.code = "ENOTFOUND" THEN CheckResult("false", "DNS error: Domain not found")
    ELSE CheckResult("null", "DNS error: " \o o.error.message)

\* an empty record list taken for a configured domain
DnsResult_EmptyPasses(o) ==
    IF o.ok
    THEN CheckResult("true", "Domain has " \o ToString(Len(o.records)) \o " MX record(s)")
    ELSE CheckResult("false",
             "DNS error: " \o (IF o.error.code = "ENOTFOUND" THEN "Domain not found"
                               ELSE o.error.message))

\* the result verifyEmailDNS returns once resolveMx has settled with o
DnsResult(o) ==
    IF o.ok
    THEN IF Len(o.records) > 0
         THEN CheckResult("true", "Domain has " \o ToString(Len(o.records)) \o " MX record(s)")
         ELSE CheckResult("false", "No MX records found")
    ELSE CheckResult("false",
             "DNS error: " \o (IF o.error.code = "ENOTFOUND" THEN "Domain not found"
                               ELSE o.error.message))

(***************************************************************************)
(* verifyEmailSMTP                                                         *)
(***************************************************************************)
\* verifyEmailSMTP returning without a resolveMx call of its own
SmtpCallsResolver_Never(email) == FALSE

\* verifyEmailSMTP reaches its resolveMx call (resolveMx(undefined) throws)
SmtpCallsResolver(email) == Len(Split(email, "@")) >= 2

SmtpUnavailable(msg) == CheckResult("null", "SMTP check unavailable: " \o msg)

SmtpNoMx == CheckResult("false", "No MX records found")

\* insertion of r into a list sorted by priority, after the records that
\* compare equal (Array.prototype.sort is stable)
RECURSIVE InsertByPriority(_, _)
InsertByPriority(r, sorted) ==
    IF sorted = <<>> THEN <<r>>
    ELSE IF r.priority < Head(sorted).priority THEN <<r>> \o sorted
    ELSE <<Head(sorted)>> \o InsertByPriority(r, Tail(sorted))

\* the records left in the resolver's order
SortByPriority_Unsorted(records) == records

\* mxRecords.sort((a, b) => a.priority - b.priority)
RECURSIVE SortByPriority(_)
SortByPriority(records) ==
    IF records = <<>> THEN <<>>
    ELSE InsertByPriority(records[Len(records)],
                          SortByPriority(SubSeq(records, 1, Len(records) - 1)))

(***************************************************************************)
(* checkSMTPHandshake: results of its three exits                          *)
(***************************************************************************)
\* a timeout reported as a rejection
TimeoutResult_Fail == CheckResult("false", "Connection timed out (Port 25 likely blocked)")

TimeoutResult == CheckResult("null", "Connection timed out (Port 25 likely blocked)")

\* a connection error reported as a rejection
ErrorResult_Fail(msg) == CheckResult("false", "Connection failed: " \o msg)

ErrorResult(msg) == CheckResult("null", "Connection failed: " \o msg)

\* the two definitive replies exchanged
RcptResult_Swapped(code) ==
    IF code = 550 THEN CheckResult("true", "Exists (Server accepted)")
    ELSE IF code = 250 THEN CheckResult("false", "Does not exist (Server rejected)")
    ELSE CheckResult("null", "Uncertain response: " \o CodeText(code))

\* every reply but 250 taken for a rejection
RcptResult_RejectOthers(code) ==
    IF code = 250 THEN CheckResult("true", "Exists (Server accepted)")
    ELSE CheckResult("false", "Does not exist (Server rejected)")

\* classification of the reply to RCPT TO
RcptResult(code) ==
    IF code = 250 THEN CheckResult("true", "Exists (Server accepted)")
    ELSE IF code = 550 THEN CheckResult("false", "Does not exist (Server rejected)")
    ELSE CheckResult("null", "Uncertain response: " \o CodeText(code))

\* the step-3 branch ending the socket without a QUIT
RcptTeardown_NoQuit == <<>>

\* the step-3 branch writing its QUIT twice
RcptTeardown_QuitTwice == <<"QUIT", "QUIT">>

\* what the step-3 branch writes before it ends the socket
RcptTeardown == <<"QUIT">>

(***************************************************************************)
(* checkSMTPHandshake and verifyEmailSMTP: synchronous failures            *)
(***************************************************************************)
\* the catch of the data callback leaving the exception to its caller
CatchResult_Rethrown == CheckResult("thrown", "Protocol error")

\* the catch of the data callback reporting a definite failure
CatchResult_Fail == CheckResult("false", "Protocol error")

\* the catch of the data callback: a socket call of the branch threw
CatchResult == CheckResult("null", "Protocol error")

\* the message of the exception socket.connect throws
ConnectErrors == {"connect EINVAL"}

(***************************************************************************)
(* generateEmailVariations                                                 *)
(***************************************************************************)
HttpScheme == <<"h", "t", "t", "p", ":", "/", "/">>

HttpsScheme == <<"h", "t", "t", "p", "s", ":", "/", "/">>

WwwPrefix == <<"w", "w", "w", ".">>

\* .replace(/^https?:\/\//i, '') on a string
StripScheme(s) ==
    IF StartsWith(toLowerCase(s), HttpsScheme) THEN DropPrefix(s, HttpsScheme)
    ELSE IF StartsWith(toLowerCase(s), HttpScheme) THEN DropPrefix(s, HttpScheme)
    ELSE s

\* .replace(/^www\./i, '') on a string
StripWww(s) ==
    IF StartsWith(toLowerCase(s), WwwPrefix) THEN DropPrefix(s, WwwPrefix) ELSE s

\* const dom = domain.toLowerCase().trim().replace(...).replace(...).split('/')[0]
NormalizeDomain(domain) ==
    Split(StripWww(StripScheme(trim(toLowerCase(domain)))), "/")[1]

\* `${s[0]}` in a template string: "undefined" when s is empty
FirstChar(s) ==
    IF s = <<>> THEN <<"u", "n", "d", "e", "f", "i", "n", "e", "d">> ELSE <<s[1]>>

\* the initial written after the two names
Templates_InitialLate(first, last, dom) ==
    << first \o <<"@">> \o dom,
       last \o <<"@">> \o dom,
       first \o <<".">> \o last \o <<"@">> \o dom,
       first \o last \o <<"@">> \o dom,
       first \o <<"_">> \o last \o <<"@">> \o dom,
       last \o <<".">> \o first \o <<"@">> \o dom,
       (IF first = <<>> THEN <<>> ELSE <<first[1]>>) \o <<".">> \o last \o <<"@">> \o dom,
       (IF first = <<>> THEN <<>> ELSE <<first[1]>>) \o last \o <<"@">> \o dom >>

\* const variations = [ ... ]: the eight templates, in the order of the code
Templates(first, last, dom) ==
    << first \o <<"@">> \o dom,
       last \o <<"@">> \o dom,
       first \o <<".">> \o last \o <<"@">> \o dom,
       first \o last \o <<"@">> \o dom,
       FirstChar(first) \o <<".">> \o last \o <<"@">> \o dom,
       first \o <<"_">> \o last \o <<"@">> \o dom,
       FirstChar(first) \o last \o <<"@">> \o dom,
       last \o <<".">> \o first \o <<"@">> \o dom >>

\* the duplicates kept
Unique_KeepsAll(list) == list

\* [...new Set(list)]: the elements in the order of their first occurrence
RECURSIVE Unique(_)
Unique(list) ==
    IF list = <<>> THEN <<>>
    ELSE LET front == Unique(SubSeq(list, 1, Len(list) - 1))
             x == list[Len(list)]
         IN  IF \E i \in 1..Len(front) : front[i] = x THEN front ELSE Append(front, x)

\* a name of one character or none rejected (the empty list stands for that)
generateEmailVariations_ShortNameFails(firstName, lastName, domain) ==
    IF Len(trim(toLowerCase(firstName))) <= 1 THEN <<>>
    ELSE Unique(Templates(trim(toLowerCase(firstName)), trim(toLowerCase(lastName)),
                          NormalizeDomain(domain)))

generateEmailVariations(firstName, lastName, domain) ==
    Unique(Templates(trim(toLowerCase(firstName)), trim(toLowerCase(lastName)),
                     NormalizeDomain(domain)))

(***************************************************************************)
(* The handler's conditions                                                *)
(***************************************************************************)
\* the DNS step never entered
WantsDns_Never(syntax, lv) == FALSE

\* the DNS step entered whatever the syntax check said
WantsDns_NoSyntaxGate(syntax, lv) == lv \in {"dns", "smtp"}

\* "DNS check if syntax is valid"
WantsDns(syntax, lv) == syntax.valid = "true" /\ lv \in {"dns", "smtp"}

\* the SMTP step entered at level dns too
WantsSmtp_DnsToo(syntax, lv) == syntax.valid = "true" /\ lv \in {"dns", "smtp"}

\* "SMTP check if DNS is valid"
WantsSmtp(syntax, lv) == syntax.valid = "true" /\ lv = "smtp"

\* an unrecognised level never valid
OverallValid_UnknownFalse(lv, v) ==
    IF lv = "syntax" THEN v.syntax.valid = "true"
    ELSE IF lv = "dns" THEN v.syntax.valid = "true" /\ v.dns.valid = "true"
    ELSE IF lv = "smtp" THEN v.syntax.valid = "true" /\ v.dns.valid = "true"
    ELSE FALSE

\* the smtp level gated by the SMTP result
OverallValid_SmtpGated(lv, v) ==
    IF lv = "syntax" THEN v.syntax.valid = "true"
    ELSE IF lv = "dns" THEN v.syntax.valid = "true" /\ v.dns.valid = "true"
    ELSE IF lv = "smtp"
    THEN v.syntax.valid = "true" /\ v.dns.valid = "true" /\ v.smtp.valid = "true"
    ELSE v.syntax.valid = "true"

\* the dns result left out of the aggregation
OverallValid_DnsIgnored(lv, v) == v.syntax.valid = "true"

\* "Overall validation"
OverallValid(lv, v) ==
    IF lv = "syntax" THEN v.syntax.valid = "true"
    ELSE IF lv = "dns" THEN v.syntax.valid = "true" /\ v.dns.valid = "true"
    ELSE IF lv = "smtp" THEN v.syntax.valid = "true" /\ v.dns.valid = "true"
    ELSE v.syntax.valid = "true"

(***************************************************************************)
(* Inputs of the function calls                                            *)
(***************************************************************************)
NameAlphabet == {"a", "B"}

John == <<"J", "o", "h", "n">>

Doe == <<"D", "o", "e">>

Jane == <<"J", "a", "n", "e">>

Smith == <<"S", "m", "i", "t", "h">>

CompanyCom == <<"c", "o", "m", "p", "a", "n", "y", ".", "c", "o", "m">>

ExampleCom == <<"e", "x", "a", "m", "p", "l", "e", ".", "c", "o", "m">>

XCom == <<"x", ".", "c", "o", "m">>

\* names of the documented examples, and names with white space around them
ExampleNames == {John, Doe, Jane, Smith, <<"A">>, <<" ">>, <<" ", "a", "b", " ">>}

Names == UNION {[1..n -> NameAlphabet] : n \in 1..MaxName} \cup ExampleNames

\* a domain argument of the shape [http(s)://][www.]host[/path][?query]
DomainShapes ==
    [scheme : {<<>>, HttpScheme, <<"H", "T", "T", "P", "S", ":", "/", "/">>},
     www : {<<>>, <<"w", "W", "w", ".">>},
     host : {XCom, CompanyCom, <<"E", "x", "a", "m", "p", "l", "e", ".", "C", "O", "M">>},
     path : {<<>>, <<"/", "p">>},
     query : {<<>>, <<"?", "q">>}]

DomainText(shape) == shape.scheme \o shape.www \o shape.host \o shape.path \o shape.query

GenerateCalls ==
    {[fn |-> "generateEmailVariations", firstName |-> f, lastName |-> l,
      domain |-> DomainText(sh), shape |-> sh, value |-> [type |-> "string", str |-> <<>>],
      lib |-> "returns"] : f \in Names, l \in Names, sh \in DomainShapes}

\* the values verifyEmailSyntax is given: strings, and values of other types
JsValues ==
    {[type |-> "string", str |-> e] : e \in Emails}
    \cup {[type |-> t, str |-> <<>>] : t \in {"undefined", "null", "number", "object"}}

\* validator.validate returns its value, or throws
LibOutcomes == {"returns", "throws"}

NoShape == [scheme |-> <<>>, www |-> <<>>, host |-> <<>>, path |-> <<>>, query |-> <<>>]

SyntaxCalls ==
    {[fn |-> "verifyEmailSyntax", firstName |-> <<>>, lastName |-> <<>>, domain |-> <<>>,
      shape |-> NoShape, value |-> v, lib |-> o] : v \in JsValues, o \in LibOutcomes}

NoCall ==
    [fn |-> "none", firstName |-> <<>>, lastName |-> <<>>, domain |-> <<>>,
     shape |-> NoShape, value |-> [type |-> "string", str |-> <<>>], lib |-> "returns"]

\* the catch of verifyEmailSyntax reporting an indeterminate result
GrammarThrown_Null == CheckResult("null", "Validation error: unexpected")

\* the catch of verifyEmailSyntax
GrammarThrown == CheckResult("false", "Validation error: unexpected")

\* verifyEmailSyntax runs down to its validator.validate call
ReachesGrammar(email) ==
    verifyEmailSyntax(email).message \in {"Valid email format", "Invalid email format"}

\* verifyEmailSyntax on a value of any type, with the outcome of the
\* validator.validate call it may make
verifyEmailSyntaxValue(value, lib) ==
    IF value.type # "string" THEN CheckResult("false", "Email is empty or invalid type")
    ELSE IF lib = "throws" /\ ReachesGrammar(value.str) THEN GrammarThrown
    ELSE verifyEmailSyntax(value.str)

(***************************************************************************)
(* The endpoints: requests, the network one request sees, the loops        *)
(***************************************************************************)
TextAlphabet == {"a", "@", ",", " "}

InvalidEmail == <<"i", "n", "v", "a", "l", "i", "d", "-", "e", "m", "a", "i", "l">>

ValidEmail == <<"a", "@", "a", ".", "a", "a">>

\* texts pasted as in the README: one entry per line, or separated by commas
ExampleTexts ==
    { ValidEmail \o <<"\n">> \o InvalidEmail \o <<"\n">> \o <<"b", "@">> \o XCom,
      InvalidEmail \o <<",", " ">> \o ValidEmail,
      <<" ">> \o ValidEmail \o <<"\n", "\n">> }

Texts == UNION {[1..n -> TextAlphabet] : n \in 0..MaxText} \cup ExampleTexts

ExamplePeople ==
    { [firstName |-> John, lastName |-> Doe, domain |-> CompanyCom],
      [firstName |-> <<"A">>, lastName |-> <<"A">>, domain |-> XCom],
      [firstName |-> Jane, lastName |-> Smith, domain |-> ExampleCom] }

PeopleLists == UNION {[1..n -> ExamplePeople] : n \in 1..MaxPeople}

\* resolveMx rejecting for a domain that has no MX record
NoDataOutcome ==
    [ok |-> FALSE, records |-> <<>>,
     error |-> [code |-> "ENODATA", message |-> "queryMx ENODATA"]]

\* what a probe of the request's mail host resolves with
ProbeOutcomes == {RcptResult(250), RcptResult(550), TimeoutResult}

\* the network during one request: what resolveMx settles with for the
\* domain, and what a probe resolves with
Networks == [mx : MxOutcomes \cup {NoDataOutcome}, probe : ProbeOutcomes]

\* a request body without a level
NoLevel == "undefined"

RequestLevels == Levels \cup {NoLevel}

VerifyRequests ==
    {[endpoint |-> "verify", emails |-> t, people |-> <<>>, level |-> lv] :
        t \in Texts, lv \in RequestLevels}

GenerateRequests ==
    {[endpoint |-> "generate", emails |-> <<>>, people |-> pl, level |-> lv] :
        pl \in PeopleLists, lv \in RequestLevels}

NoRequest == [endpoint |-> "none", emails |-> <<>>, people |-> <<>>, level |-> "syntax"]

NoNetwork == [mx |-> NoAnswer, probe |-> Absent]

\* emails.split(/\n|,/)
RECURSIVE SplitEntries(_)
SplitEntries(text) ==
    IF \A i \in 1..Len(text) : text[i] \notin {"\n", ","} THEN <<text>>
    ELSE LET i == CHOOSE k \in 1..Len(text) :
                      /\ text[k] \in {"\n", ","}
                      /\ \A j \in 1..(k - 1) : text[j] \notin {"\n", ","}
         IN  <<SubSeq(text, 1, i - 1)>> \o SplitEntries(SubSeq(text, i + 1, Len(text)))

\* .map(email => email.trim())
TrimAll(list) == [i \in 1..Len(list) |-> trim(list[i])]

KeepsEntry(entry) == Len(entry) > 0 /\ Includes(entry, "@")

\* "Parse emails from text"
ParseEmails(text) == SelectSeq(TrimAll(SplitEntries(text)), KeepsEntry)

\* the DNS step leaving no result
DnsStep_NoResult(e, net) == Absent

\* verifyEmailDNS during a request
DnsStep(e, net) == IF DnsCallsResolver(e) THEN DnsResult(net.mx) ELSE DnsPrecheck(e)

\* verifyEmailSMTP during a request
SmtpStep(e, net) ==
    IF ~SmtpCallsResolver(e) THEN SmtpUnavailable("invalid hostname")
    ELSE IF ~net.mx.ok THEN SmtpUnavailable(net.mx.error.message)
    ELSE IF Len(net.mx.records) = 0 THEN SmtpNoMx
    ELSE net.probe

\* one iteration of the loop: the result pushed for the address e
LoopResult(e, lv, net) ==
    LET syntax == verifyEmailSyntax(e)
        dns == IF WantsDns(syntax, lv) THEN DnsStep(e, net) ELSE Absent
        smtp == IF WantsSmtp(syntax, lv) THEN SmtpStep(e, net) ELSE Absent
        v == [syntax |-> syntax, dns |-> dns, smtp |-> smtp, overallValid |-> FALSE]
    IN  [email |-> e, syntax |-> syntax, dns |-> dns, smtp |-> smtp,
         overallValid |-> OverallValid(lv, v)]

\* verify handler: const { emails, level = 'syntax' }
VerifyLevel(req) == IF req.level = NoLevel THEN "syntax" ELSE req.level

\* generate handler: const { input, level = 'dns' }
GenerateLevel(req) == IF req.level = NoLevel THEN "dns" ELSE req.level

\* the level the handler of the request's endpoint works with
RequestLevel(req) ==
    IF req.endpoint = "verify" THEN VerifyLevel(req) ELSE GenerateLevel(req)

(***************************************************************************)
(* The Express server: /api/verify and /api/generate.  Its copies of the   *)
(* verification functions differ from utils.js in comments only, so the    *)
(* operators of those functions stand for both.                            *)
(***************************************************************************)
\* /api/verify with the default level of /api/generate
ExpressVerifyLevel_Dns(req) == IF req.level = NoLevel THEN "dns" ELSE req.level

\* /api/verify: const { emails, level = 'syntax' } = req.body
ExpressVerifyLevel(req) == IF req.level = NoLevel THEN "syntax" ELSE req.level

\* /api/generate: const { input, level = 'dns' } = req.body
ExpressGenerateLevel(req) == IF req.level = NoLevel THEN "dns" ELSE req.level

\* "Basic filter: must have some content and contain @ symbol"
ExpressKeepsEntry(entry) == Len(entry) > 0 /\ Includes(entry, "@")

\* /api/verify: "Parse emails from text (one per line or comma-separated)"
ExpressParseEmails(text) == SelectSeq(TrimAll(SplitEntries(text)), ExpressKeepsEntry)

\* the loop body of /api/verify and of /api/generate
ExpressLoopResult(e, lv, net) ==
    LET syntax == verifyEmailSyntax(e)
        dns == IF syntax.valid = "true" /\ (lv = "dns" \/ lv = "smtp")
               THEN DnsStep(e, net) ELSE Absent
        smtp == IF syntax.valid = "true" /\ lv = "smtp"
                THEN SmtpStep(e, net) ELSE Absent
        dnsPass == Present(dns) /\ dns.valid = "true"
    IN  [email |-> e, syntax |-> syntax, dns |-> dns, smtp |-> smtp,
         overallValid |->
             IF lv = "syntax" THEN syntax.valid = "true"
             ELSE IF lv = "dns" THEN syntax.valid = "true" /\ dnsPass
             ELSE IF lv = "smtp" THEN syntax.valid = "true" /\ dnsPass
             ELSE syntax.valid = "true"]

\* for (const email of emailList) ... results.push(result)
RECURSIVE ExpressLoop(_, _, _)
ExpressLoop(list, lv, net) ==
    IF list = <<>> THEN <<>>
    ELSE <<ExpressLoopResult(Head(list), lv, net)>> \o ExpressLoop(Tail(list), lv, net)

\* for (const person of people): the variations of each person, verified
RECURSIVE ExpressPeopleLoop(_, _, _)
ExpressPeopleLoop(people, lv, net) ==
    IF people = <<>> THEN <<>>
    ELSE ExpressLoop(generateEmailVariations(Head(people).firstName, Head(people).lastName,
                                             Head(people).domain), lv, net)
         \o ExpressPeopleLoop(Tail(people), lv, net)

\* res.json({ results }) of /api/verify
ExpressVerify(req, net) ==
    ExpressLoop(ExpressParseEmails(req.emails), ExpressVerifyLevel(req), net)

\* res.json({ results: allResults }) of /api/generate
ExpressGenerate(req, net) ==
    ExpressPeopleLoop(req.people, ExpressGenerateLevel(req), net)

(***************************************************************************)
(* Smart lookup: the caches, the AI and search replies, the lookups        *)
(***************************************************************************)
\* null and undefined
Null == <<"null">>

\* what JavaScript takes for true in a condition, of a string or null
Truthy(v) == v # Null /\ v # <<>>

\* a Map without entries
EmptyMap == [k \in {} |-> Null]

\* Map.has
Has(map, key) == key \in DOMAIN map

\* Map.set
Put(map, key, value) ==
    [k \in DOMAIN map \cup {key} |-> IF k = key THEN value ELSE map[k]]

\* input.substring(0, 100)
KeyLength == 100

\* aiSmartParse: the cache key of an input
ParseKey(input) == <<"p", "a", "r", "s", "e", "_">> \o Substring0(input, KeyLength)

\* aiLookupDomain: the cache key of a company name
DomainKey(companyName) == <<"d", "o", "m", "a", "i", "n", "_">> \o toLowerCase(companyName)

\* searchDomain: the cache key of a company name
SearchKey(companyName) == <<"s", "e", "a", "r", "c", "h", "_">> \o toLowerCase(companyName)

\* aiLookupDomain: the domain taken from the reply's content
AiDomainOf(content) == Split(StripWww(StripScheme(toLowerCase(trim(content)))), "/")[1]

\* searchDomain: url.hostname.replace(/^www\./i, '')
SearchDomainOf(hostname) == StripWww(hostname)

\* .replace(/\s+/g, '')
RemoveWhiteSpace(str) == SelectSeq(str, LAMBDA c : c \notin WhiteSpace)

\* intelligentDomainLookup: the last resort
Guess(companyName) == RemoveWhiteSpace(toLowerCase(companyName)) \o <<".", "c", "o", "m">>

\* the hybrid lookup passing every AI value on to the search
HasDomainShape_Never(value) == FALSE

\* intelligentDomainLookup: "domain && domain.includes('.') &&
\* domain.split('.').length >= 2"
HasDomainShape(value) ==
    /\ Truthy(value)
    /\ Includes(value, ".")
    /\ Len(Split(value, ".")) >= 2

\* company names as the parser returns them
Acme == <<"A", "c", "m", "e">>

AcmeUpper == <<"A", "C", "M", "E">>

BigCo == <<"B", "i", "g", " ", "C", "o">>

\* the people of a reply of the parser: a person with a name and a company,
\* a role at a company without a name, a name without a company
JohnAtAcme ==
    [firstName |-> John, lastName |-> Doe, company |-> Acme, role |-> Null, domain |-> Null]

CeoOfAcme ==
    [firstName |-> Null, lastName |-> Null, company |-> AcmeUpper, role |-> <<"C", "E", "O">>,
     domain |-> Null]

JaneAtBigCo ==
    [firstName |-> Jane, lastName |-> Null, company |-> BigCo, role |-> Null, domain |-> Null]

JaneAlone ==
    [firstName |-> Jane, lastName |-> Smith, company |-> Null, role |-> Null, domain |-> Null]

\* a reply of the OpenAI or of the search API that fails
Throws == [ok |-> FALSE, content |-> Null]

Reply(content) == [ok |-> TRUE, content |-> content]

\* replies to the parse prompt: result.people
ParseReplies ==
    {Reply(<<JohnAtAcme>>), Reply(<<CeoOfAcme, JohnAtAcme>>), Reply(<<JaneAtBigCo>>),
     Reply(<<JaneAlone>>), Reply(<<>>), Throws}

\* replies to the domain prompt: response.choices[0].message.content
AiDomainReplies ==
    {Reply(<<" ", "A", "c", "m", "e", ".", "i", "o">>), Reply(<<"h", "t", "t", "p", "s", ":", "/", "/", "w", "w", "w", ".", "a", "c", "m", "e", ".", "i", "o", "/", "a", "b", "o", "u", "t">>), Reply(<<"U", "n", "k", "n", "o", "w", "n">>), Throws}

\* replies of the search API: the hostname of AbstractURL or of the first
\* related topic, or neither
SearchReplies == {Reply(<<"w", "w", "w", ".", "a", "c", "m", "e", ".", "o", "r", "g">>), Reply(Null), Throws}

\* replies to the role prompt
RoleReplies ==
    {Reply([firstName |-> <<"T", "i", "m">>, lastName |-> <<"C", "o", "o", "k">>]),
     Reply([firstName |-> Null, lastName |-> Null]), Throws}

\* inputs of at least 100 characters that differ after the 100th, and a
\* short one
LongInput == [i \in 1..KeyLength |-> "x"]

Inputs == {LongInput \o <<"a">>, LongInput \o <<"b">>, <<"c", "e", "o", " ", "o", "f", " ", "A", "C", "M", "E">>}

ApiKey == <<"s", "k", "-", "1">>

SmartRequests == [input : Inputs, apiKey : {ApiKey, Null}]

\* no intelligentDomainLookup call is observed
NoLookup ==
    [pc |-> "none", company |-> Null, trace |-> <<>>, apiCalls |-> 0, ai |-> Null,
     search |-> Null, returned |-> Null, repeat |-> FALSE]

\* no smart-lookup request is being handled
NoSmart ==
    [pc |-> "idle", input |-> <<>>, hit |-> FALSE, parsed |-> <<>>, people |-> <<>>,
     index |-> 0, domain |-> Null, candidates |-> <<>>]

(***************************************************************************)
(* State                                                                   *)
(***************************************************************************)
VARIABLES
    email,          \* the address being verified
    level,          \* the requested level
    pc,             \* where the handler is: idle, dns, smtp, probe, done
    verdict,        \* result: syntax, dns, smtp, overallValid
    mxCalls,        \* resolveMx calls of this verification
    smtpConns,      \* socket.connect calls of this verification
    dnsAnswer,      \* what resolveMx settled with in verifyEmailDNS
    smtpAnswer,     \* what resolveMx settled with in verifyEmailSMTP
    mxHost,         \* the host the probe connects to
    step,           \* checkSMTPHandshake: step
    hasResolved,    \* checkSMTPHandshake: hasResolved
    timer,          \* the setTimeout handle: none, armed, cleared, fired
    timerStarts,    \* setTimeout calls of this probe
    socket,         \* what the probe did to its socket: none, open, ended, destroyed
    written,        \* commands written to the socket, in order
    resolveCount,   \* calls of the promise's resolve
    probeResult,    \* the value the promise settled with
    resolvedBy,     \* what settled it: none, data, error, timeout, catch, connect
    recv,           \* codes parsed by the data handler before resolution
    late,           \* events delivered after resolution
    call,           \* a function call: the function and its arguments
    variations,     \* what generateEmailVariations returned
    again,          \* what a second call with the same arguments returned
    syntaxResult,   \* what verifyEmailSyntax returned
    fpc,            \* where the call is: none, called, returned, repeated
    request,        \* a request to an endpoint: its body
    network,        \* the network during the request
    personIndex,    \* generate endpoint: people taken from the list
    emailList,      \* addresses the loop has still to verify
    results,        \* results pushed so far
    epc,            \* where the request is: none, received, loop, responded
    domainCache,    \* utils.js: domainCache
    aiResponseCache,\* utils.js: aiResponseCache
    smart,          \* the smart-lookup handler: its position and its locals
    lookup,         \* the intelligentDomainLookup call of the handler
    remembered,     \* per company, the domain its first lookup returned
    parsedFrom,     \* per parse key, the input whose parse was stored
    originalParse   \* per parse key, the people as the parser returned them

handlerVars == <<email, level, pc, verdict, mxCalls, smtpConns, dnsAnswer, smtpAnswer>>

probeVars == <<mxHost, step, hasResolved, timer, timerStarts, socket, written,
               resolveCount, probeResult, resolvedBy, recv, late>>

callVars == <<call, variations, again, syntaxResult, fpc>>

endpointVars == <<request, network, personIndex, emailList, results, epc>>

lookupVars == <<domainCache, aiResponseCache, smart, lookup, remembered, parsedFrom,
                originalParse>>

vars == <<email, level, pc, verdict, mxCalls, smtpConns, dnsAnswer, smtpAnswer, mxHost, step, hasResolved,
          timer, timerStarts, socket, written, resolveCount, probeResult, resolvedBy,
          recv, late, call, variations, again, syntaxResult, fpc, request, network,
          personIndex, emailList, results, epc, domainCache, aiResponseCache, smart,
          lookup, remembered, parsedFrom, originalParse>>

\* overallValid is unassigned until the aggregation; FALSE stands for that
NoVerdict == [syntax |-> Absent, dns |-> Absent, smtp |-> Absent, overallValid |-> FALSE]

\* no verification has started
Idle ==
    /\ email = <<>>
    /\ level = "syntax"
    /\ pc = "idle"
    /\ verdict = NoVerdict
    /\ mxCalls = 0
    /\ smtpConns = 0
    /\ dnsAnswer = NoAnswer
    /\ smtpAnswer = NoAnswer
    /\ mxHost = ""
    /\ step = 0
    /\ hasResolved = FALSE
    /\ timer = "none"
    /\ timerStarts = 0
    /\ socket = "none"
    /\ written = <<>>
    /\ resolveCount = 0
    /\ probeResult = Absent
    /\ resolvedBy = "none"
    /\ recv = <<>>
    /\ late = 0

\* no function call is observed
NoCalls ==
    /\ call = NoCall
    /\ variations = <<>>
    /\ again = <<>>
    /\ syntaxResult = Absent
    /\ fpc = "none"

\* no request is observed
NoRequests ==
    /\ request = NoRequest
    /\ network = NoNetwork
    /\ personIndex = 0
    /\ emailList = <<>>
    /\ results = <<>>
    /\ epc = "none"

\* the process has started: the caches are empty and no smart-lookup request
\* has arrived
NoLookups ==
    /\ domainCache = EmptyMap
    /\ aiResponseCache = EmptyMap
    /\ smart = NoSmart
    /\ lookup = NoLookup
    /\ remembered = EmptyMap
    /\ parsedFrom = EmptyMap
    /\ originalParse = EmptyMap

Init == Idle /\ NoCalls /\ NoRequests /\ NoLookups

(***************************************************************************)
(* The handler's loop body, cut at its awaits                              *)
(***************************************************************************)
\* the syntax result replaced by the dns result when that is not a pass
Aggregate_DnsIntoSyntax(lv, v, n) ==
    /\ verdict' = [v EXCEPT !.overallValid = OverallValid(lv, v),
                            !.syntax = IF Present(v.dns) /\ v.dns.valid # "true"
                                       THEN v.dns ELSE v.syntax]
    /\ pc' = "done"
    /\ mxCalls' = n

\* "Overall validation" and results.push(result)
Aggregate(lv, v, n) ==
    /\ verdict' = [v EXCEPT !.overallValid = OverallValid(lv, v)]
    /\ pc' = "done"
    /\ mxCalls' = n

\* after the DNS step: the SMTP step up to its await, or the aggregation
AfterDns(lv, e, v, n) ==
    IF WantsSmtp(v.syntax, lv)
    THEN IF SmtpCallsResolver(e)
         THEN /\ verdict' = v
              /\ pc' = "smtp"
              /\ mxCalls' = n + 1
         ELSE Aggregate(lv, [v EXCEPT !.smtp = SmtpUnavailable("invalid hostname")], n)
    ELSE Aggregate(lv, v, n)

\* after the syntax check: the DNS step up to its await, or what follows it
AfterSyntax(lv, e, v) ==
    IF WantsDns(v.syntax, lv)
    THEN IF DnsCallsResolver(e)
         THEN /\ verdict' = v
              /\ pc' = "dns"
              /\ mxCalls' = 1
         ELSE AfterDns(lv, e, [v EXCEPT !.dns = DnsPrecheck(e)], 0)
    ELSE AfterDns(lv, e, v, 0)

\* one iteration of the loop starts: the syntax check and what follows it
\* up to the first await
Verify(e, lv) ==
    /\ pc = "idle"
    /\ email' = e
    /\ level' = lv
    /\ smtpConns' = 0
    /\ AfterSyntax(lv, e, [NoVerdict EXCEPT !.syntax = verifyEmailSyntax(e)])
    /\ UNCHANGED <<dnsAnswer, smtpAnswer>>
    /\ UNCHANGED probeVars
    /\ UNCHANGED <<callVars, endpointVars, lookupVars>>

\* resolveMx of verifyEmailDNS settles with o
DnsReply(o) ==
    /\ pc = "dns"
    /\ dnsAnswer' = o
    /\ AfterDns(level, email, [verdict EXCEPT !.dns = DnsResult(o)], mxCalls)
    /\ UNCHANGED <<email, level, smtpConns, smtpAnswer>>
    /\ UNCHANGED probeVars
    /\ UNCHANGED <<callVars, endpointVars, lookupVars>>

\* resolveMx of verifyEmailSMTP settles with o: the function returns, or
\* checkSMTPHandshake creates the socket, arms the timer and connects
SmtpMxReply(o) ==
    /\ pc = "smtp"
    /\ smtpAnswer' = o
    /\ IF ~o.ok
       THEN /\ Aggregate(level, [verdict EXCEPT !.smtp = SmtpUnavailable(o.error.message)],
                         mxCalls)
            /\ UNCHANGED smtpConns
            /\ UNCHANGED probeVars
       ELSE IF Len(o.records) = 0
       THEN /\ Aggregate(level, [verdict EXCEPT !.smtp = SmtpNoMx], mxCalls)
            /\ UNCHANGED smtpConns
            /\ UNCHANGED probeVars
       ELSE /\ mxHost' = SortByPriority(o.records)[1].exchange
            /\ step' = 0
            /\ hasResolved' = FALSE
            /\ timer' = "armed"
            /\ timerStarts' = timerStarts + 1
            /\ socket' = "open"
            /\ smtpConns' = smtpConns + 1
            /\ pc' = "probe"
            /\ UNCHANGED <<verdict, mxCalls, written, resolveCount, probeResult,
                           resolvedBy, recv, late>>
    /\ UNCHANGED <<email, level, dnsAnswer>>
    /\ UNCHANGED <<callVars, endpointVars, lookupVars>>

(***************************************************************************)
(* checkSMTPHandshake: the callbacks                                       *)
(***************************************************************************)
\* resolve(r): the first call settles the promise, and the handler goes on
\* to its aggregation before any other event is delivered
Resolve(r, by) ==
    /\ resolveCount' = resolveCount + 1
    /\ IF resolvedBy = "none"
       THEN /\ probeResult' = r
            /\ resolvedBy' = by
            /\ Aggregate(level, [verdict EXCEPT !.smtp = r], mxCalls)
       ELSE UNCHANGED <<probeResult, resolvedBy, verdict, pc, mxCalls>>

\* an event reaches a callback that returns at once
LateEvent ==
    /\ late < MaxLate
    /\ late' = late + 1
    /\ UNCHANGED <<step, hasResolved, timer, socket, written, resolveCount,
                   probeResult, resolvedBy, recv, verdict, pc, mxCalls>>

\* the data callback without its guard
DataGuard_Never == FALSE

\* "if (hasResolved) return" of the data callback
DataGuard == hasResolved

\* the error callback without its guard
ErrorGuard_Always == TRUE

\* "if (!hasResolved)" of the error callback
ErrorGuard == ~hasResolved

\* the timer callback with its test inverted
TimeoutGuard_Inverted == hasResolved

\* "if (!hasResolved)" of the timer callback
TimeoutGuard == ~hasResolved

\* socket.on('data')
OnData(chunk) ==
    /\ pc \in {"probe", "done"}
    /\ socket # "none"
    /\ IF DataGuard
       THEN LateEvent
       ELSE LET code == parseInt(Substring0(chunk, 3)) IN
            /\ recv' = Append(recv, code)
            /\ late' = late
            /\ IF step = 0 /\ code = 220
               THEN /\ written' = Append(written, "HELO")
                    /\ step' = 1
                    /\ UNCHANGED <<hasResolved, timer, socket, resolveCount, probeResult,
                                   resolvedBy, verdict, pc, mxCalls>>
               ELSE IF step = 1 /\ code = 250
               THEN /\ written' = Append(written, "MAIL FROM")
                    /\ step' = 2
                    /\ UNCHANGED <<hasResolved, timer, socket, resolveCount, probeResult,
                                   resolvedBy, verdict, pc, mxCalls>>
               ELSE IF step = 2 /\ code = 250
               THEN /\ written' = Append(written, "RCPT TO")
                    /\ step' = 3
                    /\ UNCHANGED <<hasResolved, timer, socket, resolveCount, probeResult,
                                   resolvedBy, verdict, pc, mxCalls>>
               ELSE IF step = 3
               THEN /\ hasResolved' = TRUE
                    /\ timer' = "cleared"
                    /\ written' = written \o RcptTeardown
                    /\ socket' = "ended"
                    /\ Resolve(RcptResult(code), "data")
                    /\ UNCHANGED step
               ELSE /\ Len(recv) - step < MaxIgnored
                    /\ UNCHANGED <<step, hasResolved, timer, socket, written,
                                   resolveCount, probeResult, resolvedBy, verdict, pc,
                                   mxCalls>>
    /\ UNCHANGED <<email, level, smtpConns, dnsAnswer, smtpAnswer, mxHost, timerStarts>>
    /\ UNCHANGED <<callVars, endpointVars, lookupVars>>

\* socket.on('error'); a socket emits 'error' once
OnError(msg) ==
    /\ pc \in {"probe", "done"}
    /\ socket # "none"
    /\ resolvedBy # "error"
    /\ IF ErrorGuard
       THEN /\ hasResolved' = TRUE
            /\ timer' = "cleared"
            /\ Resolve(ErrorResult(msg), "error")
            /\ UNCHANGED <<step, socket, written, recv, late>>
       ELSE LateEvent
    /\ UNCHANGED <<email, level, smtpConns, dnsAnswer, smtpAnswer, mxHost, timerStarts>>
    /\ UNCHANGED <<callVars, endpointVars, lookupVars>>

\* the setTimeout callback, 5 seconds after the probe started
OnTimeout ==
    /\ timer = "armed"
    /\ timer' = "fired"
    /\ IF TimeoutGuard
       THEN /\ hasResolved' = TRUE
            /\ socket' = "destroyed"
            /\ Resolve(TimeoutResult, "timeout")
       ELSE UNCHANGED <<hasResolved, socket, resolveCount, probeResult, resolvedBy,
                        verdict, pc, mxCalls>>
    /\ UNCHANGED <<email, level, smtpConns, dnsAnswer, smtpAnswer, mxHost, timerStarts,
                   step, written, recv, late>>
    /\ UNCHANGED <<callVars, endpointVars, lookupVars>>

\* the loop goes on to its next address: a fresh result object, and the
\* next verifyEmailSMTP call gets a fresh closure
FreshIteration ==
    /\ email' = <<>>
    /\ level' = "syntax"
    /\ pc' = "idle"
    /\ verdict' = NoVerdict
    /\ mxCalls' = 0
    /\ smtpConns' = 0
    /\ dnsAnswer' = NoAnswer
    /\ smtpAnswer' = NoAnswer
    /\ mxHost' = ""
    /\ step' = 0
    /\ hasResolved' = FALSE
    /\ timer' = "none"
    /\ timerStarts' = 0
    /\ socket' = "none"
    /\ written' = <<>>
    /\ resolveCount' = 0
    /\ probeResult' = Absent
    /\ resolvedBy' = "none"
    /\ recv' = <<>>
    /\ late' = 0

\* results.push(result) of one verification, and the loop goes on
NextEmail ==
    /\ pc = "done"
    /\ FreshIteration
    /\ UNCHANGED <<callVars, endpointVars, lookupVars>>

\* the loop takes its next address; the request chose the level
VerifyNext ==
    /\ pc = "idle"
    /\ \E e \in Emails, lv \in Levels : Verify(e, lv)

Next ==
    \/ VerifyNext
    \/ \E o \in MxOutcomes : DnsReply(o)
    \/ \E o \in MxOutcomes : SmtpMxReply(o)
    \/ \E chunk \in Chunks : OnData(chunk)
    \/ \E msg \in ConnErrors : OnError(msg)
    \/ OnTimeout
    \/ NextEmail

Spec == Init /\ [][Next]_vars

\* the timer of a started probe fires unless it is cleared
FairSpec == Spec /\ WF_vars(OnTimeout)

(***************************************************************************)
(* The probe when a socket call throws                                     *)
(***************************************************************************)
\* socket.on('data') when the socket.write of the branch taken throws: the
\* catch of the callback
OnDataThrows(chunk) ==
    /\ pc = "probe"
    /\ socket = "open"
    /\ ~DataGuard
    /\ LET code == parseInt(Substring0(chunk, 3)) IN
       /\ \/ step = 0 /\ code = 220
          \/ step = 1 /\ code = 250
          \/ step = 2 /\ code = 250
          \/ step = 3
       /\ recv' = Append(recv, code)
    /\ hasResolved' = TRUE
    /\ timer' = "cleared"
    /\ socket' = "destroyed"
    /\ Resolve(CatchResult, "catch")
    /\ UNCHANGED <<step, written, late>>
    /\ UNCHANGED <<email, level, smtpConns, dnsAnswer, smtpAnswer, mxHost, timerStarts>>
    /\ UNCHANGED <<callVars, endpointVars, lookupVars>>

\* resolveMx of verifyEmailSMTP settles with records and socket.connect
\* throws: the executor's exception rejects the promise, the timer stays
\* armed, and the catch of verifyEmailSMTP returns
ConnectThrows(o, msg) ==
    /\ pc = "smtp"
    /\ o.ok
    /\ Len(o.records) > 0
    /\ smtpAnswer' = o
    /\ mxHost' = SortByPriority(o.records)[1].exchange
    /\ step' = 0
    /\ hasResolved' = FALSE
    /\ timer' = "armed"
    /\ timerStarts' = timerStarts + 1
    /\ smtpConns' = smtpConns + 1
    /\ resolvedBy' = "connect"
    /\ Aggregate(level, [verdict EXCEPT !.smtp = SmtpUnavailable(msg)], mxCalls)
    /\ UNCHANGED <<socket, written, resolveCount, probeResult, recv, late>>
    /\ UNCHANGED <<email, level, dnsAnswer>>
    /\ UNCHANGED <<callVars, endpointVars, lookupVars>>

FaultNext ==
    \/ Next
    \/ \E chunk \in Chunks : OnDataThrows(chunk)
    \/ \E o \in MxOutcomes, msg \in ConnectErrors : ConnectThrows(o, msg)

\* the verification when socket.write and socket.connect may throw
FaultSpec == Init /\ [][FaultNext]_vars

(***************************************************************************)
(* Function calls                                                          *)
(***************************************************************************)
CallInit ==
    /\ Idle
    /\ NoRequests
    /\ NoLookups
    /\ call \in GenerateCalls \cup SyntaxCalls
    /\ variations = <<>>
    /\ again = <<>>
    /\ syntaxResult = Absent
    /\ fpc = "called"

Generate ==
    /\ fpc = "called"
    /\ call.fn = "generateEmailVariations"
    /\ variations' = generateEmailVariations(call.firstName, call.lastName, call.domain)
    /\ fpc' = "returned"
    /\ UNCHANGED <<call, again, syntaxResult>>
    /\ UNCHANGED <<handlerVars, probeVars, endpointVars, lookupVars>>

\* a second call with the arguments of the first
GenerateAgain ==
    /\ fpc = "returned"
    /\ call.fn = "generateEmailVariations"
    /\ again' = generateEmailVariations(call.firstName, call.lastName, call.domain)
    /\ fpc' = "repeated"
    /\ UNCHANGED <<call, variations, syntaxResult>>
    /\ UNCHANGED <<handlerVars, probeVars, endpointVars, lookupVars>>

CheckSyntax ==
    /\ fpc = "called"
    /\ call.fn = "verifyEmailSyntax"
    /\ syntaxResult' = verifyEmailSyntaxValue(call.value, call.lib)
    /\ fpc' = "returned"
    /\ UNCHANGED <<call, variations, again>>
    /\ UNCHANGED <<handlerVars, probeVars, endpointVars, lookupVars>>

CallNext ==
    \/ Generate
    \/ GenerateAgain
    \/ CheckSyntax

CallSpec == CallInit /\ [][CallNext]_vars

(***************************************************************************)
(* The verify and generate endpoints                                       *)
(***************************************************************************)
RequestInit ==
    /\ Idle
    /\ NoCalls
    /\ NoLookups
    /\ request \in VerifyRequests \cup GenerateRequests
    /\ network \in Networks
    /\ personIndex = 0
    /\ emailList = <<>>
    /\ results = <<>>
    /\ epc = "received"

\* verify endpoint: "Parse emails from text"
StartVerify ==
    /\ epc = "received"
    /\ request.endpoint = "verify"
    /\ emailList' = ParseEmails(request.emails)
    /\ epc' = "loop"
    /\ UNCHANGED <<request, network, personIndex, results>>
    /\ UNCHANGED <<handlerVars, probeVars, callVars, lookupVars>>

\* generate endpoint: the outer loop takes its next person and generates
\* the variations
NextPerson ==
    /\ request.endpoint = "generate"
    /\ epc \in {"received", "loop"}
    /\ emailList = <<>>
    /\ personIndex < Len(request.people)
    /\ personIndex' = personIndex + 1
    /\ emailList' = generateEmailVariations(request.people[personIndex + 1].firstName,
                                            request.people[personIndex + 1].lastName,
                                            request.people[personIndex + 1].domain)
    /\ epc' = "loop"
    /\ UNCHANGED <<request, network, results>>
    /\ UNCHANGED <<handlerVars, probeVars, callVars, lookupVars>>

\* one iteration of the loop over the addresses
LoopStep ==
    /\ epc = "loop"
    /\ emailList # <<>>
    /\ results' = Append(results, LoopResult(Head(emailList), RequestLevel(request), network))
    /\ emailList' = Tail(emailList)
    /\ UNCHANGED <<request, network, personIndex, epc>>
    /\ UNCHANGED <<handlerVars, probeVars, callVars, lookupVars>>

\* the response: { results }
Respond ==
    /\ epc = "loop"
    /\ emailList = <<>>
    /\ personIndex = Len(request.people)
    /\ epc' = "responded"
    /\ UNCHANGED <<request, network, personIndex, emailList, results>>
    /\ UNCHANGED <<handlerVars, probeVars, callVars, lookupVars>>

EndpointNext ==
    \/ StartVerify
    \/ NextPerson
    \/ LoopStep
    \/ Respond

EndpointSpec == RequestInit /\ [][EndpointNext]_vars

(***************************************************************************)
(* The smart-lookup endpoint, cut at its awaits                            *)
(***************************************************************************)
\* the person the loop is at
Person(sm) == sm.people[sm.index + 1]

\* the rest of the loop body: "if (!domain || !person.firstName) continue",
\* or the variations of the person, which the inner loop verifies as the
\* loop of the generate endpoint does
EndPerson(sm) ==
    LET person == Person(sm) IN
    smart' = [sm EXCEPT
                 !.pc = "person",
                 !.index = @ + 1,
                 !.domain = Null,
                 !.candidates =
                     IF ~Truthy(sm.domain) \/ ~Truthy(person.firstName) THEN @
                     ELSE @ \o generateEmailVariations(
                                   person.firstName,
                                   IF Truthy(person.lastName) THEN person.lastName
                                   ELSE person.firstName,
                                   sm.domain)]

\* "If role mentioned but no name": aiRoleLookup up to its await
RoleStage(sm) ==
    LET person == Person(sm) IN
    IF /\ Truthy(person.role)
       /\ (~Truthy(person.firstName) \/ ~Truthy(person.lastName))
       /\ Truthy(person.company)
    THEN smart' = [sm EXCEPT !.pc = "role"]
    ELSE EndPerson(sm)

\* intelligentDomainLookup returns d to the handler
ReturnDomain(d, lk, sm) ==
    /\ lookup' = [lk EXCEPT !.pc = "returned", !.returned = d]
    /\ remembered' = IF Has(remembered, toLowerCase(lk.company)) THEN remembered
                     ELSE Put(remembered, toLowerCase(lk.company), d)
    /\ RoleStage([sm EXCEPT !.domain = d])

\* searchDomain up to its await: a cached value is returned, which is never
\* null, or the search API is called
SearchStage(lk, sm) ==
    IF Has(domainCache, SearchKey(lk.company))
    THEN ReturnDomain(domainCache[SearchKey(lk.company)],
                      [lk EXCEPT !.trace = Append(@, "search"),
                                 !.search = domainCache[SearchKey(lk.company)]],
                      sm)
    ELSE /\ lookup' = [lk EXCEPT !.pc = "search", !.trace = Append(@, "search"),
                                 !.apiCalls = @ + 1]
         /\ smart' = [sm EXCEPT !.pc = "search"]
         /\ UNCHANGED remembered

\* aiLookupDomain returned value to intelligentDomainLookup
AfterAi(value, lk, sm) ==
    IF HasDomainShape(value)
    THEN ReturnDomain(value, [lk EXCEPT !.ai = value], sm)
    ELSE SearchStage([lk EXCEPT !.ai = value], sm)

\* the request arrives: the checks of the body, and aiSmartParse up to its
\* await
SmartLookup(req) ==
    /\ smart.pc \in {"idle", "responded"}
    /\ IF ~Truthy(req.apiKey)
       THEN smart' = [NoSmart EXCEPT !.pc = "responded", !.input = req.input]
       ELSE IF Has(aiResponseCache, ParseKey(req.input))
       THEN LET people == aiResponseCache[ParseKey(req.input)] IN
            smart' = [NoSmart EXCEPT !.pc = IF Len(people) = 0 THEN "responded"
                                            ELSE "person",
                                     !.input = req.input,
                                     !.hit = TRUE,
                                     !.parsed = people,
                                     !.people = people]
       ELSE smart' = [NoSmart EXCEPT !.pc = "parse", !.input = req.input]
    /\ lookup' = NoLookup
    /\ UNCHANGED <<domainCache, aiResponseCache, remembered, parsedFrom, originalParse>>
    /\ UNCHANGED <<handlerVars, probeVars, callVars, endpointVars>>

\* the OpenAI call of aiSmartParse settles
ParseReply(reply) ==
    /\ smart.pc = "parse"
    /\ IF reply.ok
       THEN /\ aiResponseCache' = Put(aiResponseCache, ParseKey(smart.input), reply.content)
            /\ parsedFrom' = Put(parsedFrom, ParseKey(smart.input), smart.input)
            /\ originalParse' = Put(originalParse, ParseKey(smart.input), reply.content)
            /\ smart' = [smart EXCEPT !.pc = IF Len(reply.content) = 0 THEN "responded"
                                             ELSE "person",
                                      !.parsed = reply.content,
                                      !.people = reply.content]
       ELSE /\ smart' = [smart EXCEPT !.pc = "responded"]
            /\ UNCHANGED <<aiResponseCache, parsedFrom, originalParse>>
    /\ UNCHANGED <<domainCache, lookup, remembered>>
    /\ UNCHANGED <<handlerVars, probeVars, callVars, endpointVars>>

\* the loop takes its next person: "If no domain but has company", the
\* hybrid lookup up to its first await
TakePerson ==
    /\ smart.pc = "person"
    /\ smart.index < Len(smart.people)
    /\ LET person == Person(smart)
           sm == [smart EXCEPT !.domain = person.domain]
           lk == [NoLookup EXCEPT
                     !.pc = "ai",
                     !.company = person.company,
                     !.trace = <<"ai">>,
                     !.repeat = Has(remembered, toLowerCase(person.company))]
       IN  IF ~Truthy(person.domain) /\ Truthy(person.company)
           THEN IF Has(domainCache, DomainKey(person.company))
                THEN AfterAi(domainCache[DomainKey(person.company)], lk, sm)
                ELSE /\ lookup' = [lk EXCEPT !.apiCalls = 1]
                     /\ smart' = [sm EXCEPT !.pc = "ai"]
                     /\ UNCHANGED remembered
           ELSE /\ RoleStage(sm)
                /\ UNCHANGED <<lookup, remembered>>
    /\ UNCHANGED <<domainCache, aiResponseCache, parsedFrom, originalParse>>
    /\ UNCHANGED <<handlerVars, probeVars, callVars, endpointVars>>

\* the OpenAI call of aiLookupDomain settles
AiDomainReply(reply) ==
    /\ smart.pc = "ai"
    /\ IF reply.ok
       THEN /\ domainCache' = Put(domainCache, DomainKey(lookup.company),
                                  AiDomainOf(reply.content))
            /\ AfterAi(AiDomainOf(reply.content), lookup, smart)
       ELSE /\ UNCHANGED domainCache
            /\ AfterAi(Null, lookup, smart)
    /\ UNCHANGED <<aiResponseCache, parsedFrom, originalParse>>
    /\ UNCHANGED <<handlerVars, probeVars, callVars, endpointVars>>

\* the request of searchDomain settles
SearchReply(reply) ==
    /\ smart.pc = "search"
    /\ IF reply.ok /\ Truthy(reply.content)
       THEN /\ domainCache' = Put(domainCache, SearchKey(lookup.company),
                                  SearchDomainOf(reply.content))
            /\ ReturnDomain(SearchDomainOf(reply.content),
                            [lookup EXCEPT !.search = SearchDomainOf(reply.content)],
                            smart)
       ELSE /\ UNCHANGED domainCache
            /\ ReturnDomain(Guess(lookup.company),
                            [lookup EXCEPT !.trace = Append(@, "guess")], smart)
    /\ UNCHANGED <<aiResponseCache, parsedFrom, originalParse>>
    /\ UNCHANGED <<handlerVars, probeVars, callVars, endpointVars>>

\* the OpenAI call of aiRoleLookup settles: a name found is assigned to the
\* person, which is the object of the list aiSmartParse stored in its cache
RoleReply(reply) ==
    /\ smart.pc = "role"
    /\ LET roleInfo == IF reply.ok THEN reply.content
                       ELSE [firstName |-> Null, lastName |-> Null]
           filled == [smart.people EXCEPT
                         ![smart.index + 1].firstName = roleInfo.firstName,
                         ![smart.index + 1].lastName = roleInfo.lastName]
       IN  IF Truthy(roleInfo.firstName)
           THEN /\ aiResponseCache' = Put(aiResponseCache, ParseKey(smart.input), filled)
                /\ EndPerson([smart EXCEPT !.people = filled])
           ELSE /\ UNCHANGED aiResponseCache
                /\ EndPerson(smart)
    /\ UNCHANGED <<domainCache, lookup, remembered, parsedFrom, originalParse>>
    /\ UNCHANGED <<handlerVars, probeVars, callVars, endpointVars>>

\* the response: { results, aiInsights, peopleFound }
SmartRespond ==
    /\ smart.pc = "person"
    /\ smart.index = Len(smart.people)
    /\ smart' = [smart EXCEPT !.pc = "responded"]
    /\ UNCHANGED <<domainCache, aiResponseCache, lookup, remembered, parsedFrom,
                   originalParse>>
    /\ UNCHANGED <<handlerVars, probeVars, callVars, endpointVars>>

LookupNext ==
    \/ \E req \in SmartRequests : SmartLookup(req)
    \/ \E reply \in ParseReplies : ParseReply(reply)
    \/ TakePerson
    \/ \E reply \in AiDomainReplies : AiDomainReply(reply)
    \/ \E reply \in SearchReplies : SearchReply(reply)
    \/ \E reply \in RoleReplies : RoleReply(reply)
    \/ SmartRespond

\* the requests to the smart-lookup endpoint of one process, one after the
\* other
LookupSpec == Init /\ [][LookupNext]_vars

(***************************************************************************)
(* One request, its loop run event by event                                *)
(***************************************************************************)
\* the README text of three entries
ReadmeText == ValidEmail \o <<"\n">> \o InvalidEmail \o <<"\n">> \o <<"b", "@">> \o XCom

\* an address with a domain the syntax check rejects
NoDotEmail == <<"b", "@", "x">>

\* requests whose candidates are verified event by event: at level smtp an
\* address that is probed before or after one that is not, at level dns
\* and at the default level the README text, and the variations of one
\* person
HandlerRequests ==
    {[endpoint |-> "verify", emails |-> t, people |-> <<>>, level |-> "smtp"] :
        t \in {ValidEmail \o <<",">> \o NoDotEmail, NoDotEmail \o <<",">> \o ValidEmail}}
    \cup
    {[endpoint |-> "verify", emails |-> ReadmeText, people |-> <<>>, level |-> lv] :
        lv \in {"dns", NoLevel}}
    \cup
    {[endpoint |-> "generate", emails |-> <<>>,
      people |-> <<[firstName |-> <<"A">>, lastName |-> <<"A">>, domain |-> XCom]>>,
      level |-> NoLevel]}

HandlerInit ==
    /\ Idle
    /\ NoCalls
    /\ NoLookups
    /\ request \in HandlerRequests
    /\ network = NoNetwork
    /\ personIndex = 0
    /\ emailList = <<>>
    /\ results = <<>>
    /\ epc = "received"

\* for (const email of ...): the iteration for the next candidate starts
\* when the one before it has pushed its result
TakeCandidate ==
    /\ epc = "loop"
    /\ emailList # <<>>
    /\ pc = "idle"
    /\ Verify(Head(emailList), RequestLevel(request))

\* the result pushed at the front of the list
Pushed_First(list, result) == <<result>> \o list

\* results.push(result)
Pushed(list, result) == Append(list, result)

\* the iteration ends: results.push(result)
PushResult ==
    /\ epc = "loop"
    /\ pc = "done"
    /\ results' = Pushed(results, [email |-> email, syntax |-> verdict.syntax,
                                   dns |-> verdict.dns, smtp |-> verdict.smtp,
                                   overallValid |-> verdict.overallValid])
    /\ emailList' = Tail(emailList)
    /\ FreshIteration
    /\ UNCHANGED <<request, network, personIndex, epc>>
    /\ UNCHANGED <<callVars, lookupVars>>

HandlerNext ==
    \/ StartVerify
    \/ NextPerson
    \/ TakeCandidate
    \/ \E o \in MxOutcomes : DnsReply(o)
    \/ \E o \in MxOutcomes : SmtpMxReply(o)
    \/ \E chunk \in Chunks : OnData(chunk)
    \/ \E msg \in ConnErrors : OnError(msg)
    \/ OnTimeout
    \/ PushResult
    \/ Respond

\* one invocation of the verify or the generate handler
HandlerSpec == HandlerInit /\ [][HandlerNext]_vars

(***************************************************************************)
(* Properties                                                              *)
(***************************************************************************)
Returned == pc = "done"

\* C1: an address the syntax check rejects causes no resolveMx call and no
\* socket connection at any level, its verdict has neither a dns nor an smtp
\* result, and overallValid is false.
C1_NoNetworkOnBadSyntax ==
    (pc # "idle" /\ verdict.syntax.valid = "false") =>
        /\ mxCalls = 0
        /\ smtpConns = 0
        /\ socket = "none"
        /\ ~Present(verdict.dns)
        /\ ~Present(verdict.smtp)
        /\ Returned
        /\ verdict.overallValid = FALSE

C1_Witness ==
    /\ Returned
    /\ level = "smtp"
    /\ verdict.syntax = CheckResult("false", "Invalid email format")

\* C2: at level smtp overallValid is (syntax passed and dns passed) whatever
\* the smtp result is, and the smtp result is in the verdict.
C2_SmtpNotGating ==
    (Returned /\ level = "smtp") =>
        /\ verdict.overallValid =
               (verdict.syntax.valid = "true" /\ verdict.dns.valid = "true")
        /\ (verdict.syntax.valid = "true" => Present(verdict.smtp))

C2_Witness ==
    /\ Returned
    /\ level = "smtp"
    /\ resolvedBy = "data"
    /\ verdict.smtp.valid = "false"
    /\ verdict.overallValid = TRUE

\* C3 as stated: overallValid is true only if every result present in the
\* verdict (syntax, dns, smtp) is a pass.
C3_AllPresentPass ==
    (Returned /\ verdict.overallValid) =>
        /\ verdict.syntax.valid = "true"
        /\ (Present(verdict.dns) => verdict.dns.valid = "true")
        /\ (Present(verdict.smtp) => verdict.smtp.valid = "true")

\* C3 (amended): overallValid is true only if the syntax result and, when
\* the DNS check was performed, the dns result are passes; the smtp result
\* does not gate it.
C3_SyntaxAndDnsPass ==
    (Returned /\ verdict.overallValid) =>
        /\ verdict.syntax.valid = "true"
        /\ (Present(verdict.dns) => verdict.dns.valid = "true")
        /\ (level \in {"dns", "smtp"} => Present(verdict.dns))

C3_Witness ==
    /\ Returned
    /\ verdict.overallValid
    /\ verdict.dns.valid = "true"
    /\ verdict.smtp.valid = "null"

\* C4 as stated: at level smtp, when the dns result is not a pass there is
\* no second resolveMx call, no socket connection and no smtp result.
C4_SmtpOnlyAfterDnsPass ==
    (level = "smtp" /\ Present(verdict.dns) /\ verdict.dns.valid # "true") =>
        /\ mxCalls <= 1
        /\ smtpConns = 0
        /\ ~Present(verdict.smtp)

\* C5: replies 220, 250, 250 and then 250 give a pass; 220, 250, 250 and
\* then 550 give a fail.
C5_RcptReplyClassified ==
    /\ recv = <<220, 250, 250, 250>> =>
           /\ resolvedBy = "data"
           /\ probeResult.valid = "true"
           /\ verdict.smtp.valid = "true"
    /\ recv = <<220, 250, 250, 550>> =>
           /\ resolvedBy = "data"
           /\ probeResult.valid = "false"
           /\ verdict.smtp.valid = "false"

C5_Witness ==
    /\ recv = <<220, 250, 250, 550>>
    /\ Returned
    /\ verdict.smtp = CheckResult("false", "Does not exist (Server rejected)")

\* the code the data callback parsed last
LastCode == recv[Len(recv)]

\* C6: a reply to RCPT TO that is neither 250 nor 550, unparsable ones
\* included, gives valid = null with the parsed code in the message.
C6_OtherReplyIndeterminate ==
    (resolvedBy = "data" /\ LastCode \notin {250, 550}) =>
        /\ probeResult.valid = "null"
        /\ probeResult.message = "Uncertain response: " \o CodeText(LastCode)
        /\ (LastCode = 450 => probeResult.message = "Uncertain response: 450")
        /\ (LastCode = NaN => probeResult.message = "Uncertain response: NaN")
        /\ verdict.smtp = probeResult

C6_Witness ==
    /\ resolvedBy = "data"
    /\ recv = <<220, 250, 250, NaN>>
    /\ verdict.smtp.valid = "null"

\* C7: an 'error' event delivered to a probe that has not resolved, in
\* whatever step, makes the result valid = null, and no later event turns
\* it into a fail.
C7_ErrorIndeterminate ==
    resolvedBy = "error" =>
        /\ probeResult.valid = "null"
        /\ \E msg \in ConnErrors : probeResult.message = "Connection failed: " \o msg
        /\ verdict.smtp = probeResult

C7_Witness ==
    /\ resolvedBy = "error"
    /\ step = 3
    /\ late >= 1
    /\ verdict.smtp.valid = "null"

\* C8: the probe arms one timer when it starts, the timer stays armed in
\* every step until the probe resolves, and when it fires first the socket
\* is destroyed and the result is valid = null with the port-25 reason.
C8_SingleTimeout ==
    /\ timerStarts <= 1
    /\ (pc = "probe" => timer = "armed" /\ timerStarts = 1)
    /\ (resolvedBy = "timeout" =>
            /\ timer = "fired"
            /\ socket = "destroyed"
            /\ probeResult =
                   CheckResult("null", "Connection timed out (Port 25 likely blocked)")
            /\ verdict.smtp = probeResult)

C8_Witness ==
    /\ resolvedBy = "timeout"
    /\ step = 2
    /\ Len(recv) = 3
    /\ socket = "destroyed"

\* C9: resolve is called at most once per probe under every interleaving
\* of data, error and timer events, and every started probe resolves.
C9_ResolvedExactlyOnce ==
    /\ [](resolveCount <= 1)
    /\ ((pc = "probe") ~> (resolveCount = 1))

C9_Witness ==
    /\ resolvedBy = "timeout"
    /\ resolveCount = 1
    /\ late >= 2
    /\ Len(recv) >= 1

\* C10 as stated: on every exit of the probe QUIT has been written before
\* the result is returned.
C10_QuitOnEveryExit ==
    resolveCount >= 1 => Includes(written, "QUIT")

\* C10 (amended): QUIT has been written before the result is returned on
\* the exit that classifies the reply to RCPT TO, and on no other exit.
C10_QuitOnRcptExitOnly ==
    resolveCount >= 1 =>
        /\ (resolvedBy = "data" =>
                written = <<"HELO", "MAIL FROM", "RCPT TO", "QUIT">>)
        /\ (resolvedBy \in {"timeout", "error"} => ~Includes(written, "QUIT"))

C10_Witness ==
    /\ resolvedBy = "data"
    /\ Returned
    /\ written[Len(written)] = "QUIT"

\* C11 as stated: when the result is resolved the probe has called end or
\* destroy on its socket, on every exit.
C11_SocketReleased ==
    resolveCount >= 1 => socket \in {"ended", "destroyed"}

\* replies the data callback passed over because they matched no branch
PassedOver == Len(recv) - step - (IF resolvedBy = "data" THEN 1 ELSE 0)

\* C12 as stated: after a reply in step 0, 1 or 2 whose code is not the
\* expected one the probe can no longer reach a pass or a fail.
C12_UnexpectedReplyEnds ==
    PassedOver >= 1 => probeResult.valid \notin {"true", "false"}

\* C13: every started probe returns a result to the handler, whatever the
\* peer sends or fails to send, provided the timer fires.
C13_ProbeReturns ==
    (pc = "probe") ~> (Returned /\ Present(verdict.smtp) /\ hasResolved)

C13_Witness ==
    /\ resolvedBy = "timeout"
    /\ step = 0
    /\ Len(recv) >= 1
    /\ Returned

\* resolveMx rejected
IsMxError(a) == ~a.ok /\ a.error.code # ""

C15_NoRecordsFail ==
    (dnsAnswer.ok /\ Len(dnsAnswer.records) = 0) =>
        verdict.dns = CheckResult("false", "No MX records found")

C15_Witness ==
    /\ dnsAnswer.ok
    /\ dnsAnswer.records = <<>>
    /\ level = "dns"
    /\ Returned
    /\ verdict.dns.valid = "false"
    /\ verdict.overallValid = FALSE

C18_LowestPriorityHost ==
    smtpConns >= 1 =>
        /\ smtpConns = 1
        /\ \E i \in 1..Len(smtpAnswer.records) :
               /\ smtpAnswer.records[i].exchange = mxHost
               /\ \A j \in 1..Len(smtpAnswer.records) :
                      smtpAnswer.records[i].priority <= smtpAnswer.records[j].priority
        /\ (Len(smtpAnswer.records) = 3 /\ smtpAnswer.records[2].priority = 10
                => mxHost = smtpAnswer.records[2].exchange)

C18_Witness ==
    /\ pc = "probe"
    /\ Len(smtpAnswer.records) = 3
    /\ smtpAnswer.records[1].priority = 20
    /\ smtpAnswer.records[2].priority = 10
    /\ smtpAnswer.records[3].priority = 30
    /\ mxHost = "mx1"

\* resolveMx calls that have not settled
PendingMx ==
    mxCalls - (IF dnsAnswer # NoAnswer THEN 1 ELSE 0)
            - (IF smtpAnswer # NoAnswer THEN 1 ELSE 0)

\* C19: the resolution of the DNS check starts after the syntax check has
\* returned a pass, the SMTP step starts after the DNS check has returned,
\* and at most one network operation of the verification is in flight.
C19_EscalationOrder ==
    /\ pc = "dns" =>
           /\ verdict.syntax.valid = "true"
           /\ ~Present(verdict.dns)
           /\ ~Present(verdict.smtp)
           /\ smtpAnswer = NoAnswer
           /\ socket = "none"
    /\ pc \in {"smtp", "probe"} =>
           /\ Present(verdict.dns)
           /\ dnsAnswer # NoAnswer
           /\ ~Present(verdict.smtp)
    /\ pc = "smtp" => socket = "none"
    /\ Present(verdict.smtp) => Present(verdict.dns)
    /\ Present(verdict.dns) => Present(verdict.syntax)
    /\ PendingMx + (IF pc = "probe" THEN 1 ELSE 0) <= 1
    /\ PendingMx >= 0

C19_Witness ==
    /\ pc = "smtp"
    /\ verdict.dns.valid = "true"
    /\ PendingMx = 1

KnownLevels == {"syntax", "dns", "smtp"}

\* C20 as stated: a verification requested with an unrecognised level is
\* not answered with a verdict (for the entries the endpoint keeps: those
\* that contain an @).
C20_UnknownLevelRejected ==
    (level \notin KnownLevels /\ Includes(email, "@")) => ~Returned

\* C20 (amended): a verification requested with an unrecognised level is
\* answered with a verdict as at level syntax: only the syntax check runs
\* and overallValid is its outcome.
C20_UnknownLevelAsSyntax ==
    (level \notin KnownLevels /\ pc # "idle") =>
        /\ Returned
        /\ Present(verdict.syntax)
        /\ ~Present(verdict.dns)
        /\ ~Present(verdict.smtp)
        /\ mxCalls = 0
        /\ smtpConns = 0
        /\ verdict.overallValid = (verdict.syntax.valid = "true")

C20_Witness ==
    /\ Returned
    /\ level = "full"
    /\ verdict.syntax.valid = "true"
    /\ verdict.overallValid = TRUE

TriState == {"true", "false", "null"}

IsCheckResult(c) == c.valid \in TriState /\ c.message # ""

\* C21: no network failure (a resolver error, a connection error, a
\* timeout, a socket call that throws) leaves the DNS check or the SMTP check
\* without a result: the check returns a CheckResult whose valid is true,
\* false or null and whose message is not empty, and the handler goes on.
C21_FailuresAreResults ==
    /\ Present(verdict.dns) => IsCheckResult(verdict.dns)
    /\ Present(verdict.smtp) => IsCheckResult(verdict.smtp)
    /\ IsMxError(dnsAnswer) => Present(verdict.dns)
    /\ IsMxError(smtpAnswer) => Returned /\ verdict.smtp.valid = "null"
    /\ resolvedBy \in {"error", "timeout", "catch", "connect"} =>
           Returned /\ verdict.smtp.valid = "null"
    /\ (Returned /\ WantsDns(verdict.syntax, level)) => Present(verdict.dns)
    /\ (Returned /\ WantsSmtp(verdict.syntax, level)) => Present(verdict.smtp)

C21_Witness ==
    /\ resolvedBy = "catch"
    /\ step = 2
    /\ Returned
    /\ verdict.smtp = CheckResult("null", "Protocol error")
    /\ verdict.dns.valid = "true"

\* the arguments of the call as generateEmailVariations normalizes them
CallFirst == trim(toLowerCase(call.firstName))

CallLast == trim(toLowerCase(call.lastName))

CallDom == NormalizeDomain(call.domain)

GenerateReturned == call.fn = "generateEmailVariations" /\ fpc \in {"returned", "repeated"}

\* the eight local-parts f, l, f.l, fl, f1.l, f_l, f1l, l.f
LocalParts(f, l) ==
    << f, l, f \o <<".">> \o l, f \o l, <<f[1]>> \o <<".">> \o l, f \o <<"_">> \o l,
       <<f[1]>> \o l, l \o <<".">> \o f >>

Distinct(list) == \A i, j \in 1..Len(list) : i < j => list[i] # list[j]

PlainShape(host) ==
    [scheme |-> <<>>, www |-> <<>>, host |-> host, path |-> <<>>, query |-> <<>>]

IsCall(f, l, host) ==
    call.firstName = f /\ call.lastName = l /\ call.shape = PlainShape(host)

\* C22: when the first and the last name are not empty after normalization
\* and the eight local-parts are pairwise distinct, the list returned is the
\* eight addresses at the normalized domain, in the order f, l, f.l, fl,
\* f1.l, f_l, f1l, l.f; ("John", "Doe", "company.com") gives the eight
\* addresses of the documentation.
C22_EightInOrder ==
    GenerateReturned =>
        /\ (CallFirst # <<>> /\ CallLast # <<>> /\ Distinct(LocalParts(CallFirst, CallLast))) =>
               variations = [i \in 1..8 |->
                                LocalParts(CallFirst, CallLast)[i] \o <<"@">> \o CallDom]
        /\ IsCall(John, Doe, CompanyCom) =>
               variations =
                   << <<"j", "o", "h", "n", "@">> \o CompanyCom,
                      <<"d", "o", "e", "@">> \o CompanyCom,
                      <<"j", "o", "h", "n", ".", "d", "o", "e", "@">> \o CompanyCom,
                      <<"j", "o", "h", "n", "d", "o", "e", "@">> \o CompanyCom,
                      <<"j", ".", "d", "o", "e", "@">> \o CompanyCom,
                      <<"j", "o", "h", "n", "_", "d", "o", "e", "@">> \o CompanyCom,
                      <<"j", "d", "o", "e", "@">> \o CompanyCom,
                      <<"d", "o", "e", ".", "j", "o", "h", "n", "@">> \o CompanyCom >>

C22_Witness ==
    /\ GenerateReturned
    /\ IsCall(John, Doe, CompanyCom)
    /\ Len(variations) = 8
    /\ variations[5] = <<"j", ".", "d", "o", "e", "@">> \o CompanyCom

\* the index of the first template whose value is x
FirstTemplate(T, x) == CHOOSE k \in 1..Len(T) : T[k] = x /\ \A j \in 1..(k - 1) : T[j] # x

\* C23: for every call the list returned has no address twice, its elements
\* are the values of the eight templates, in the order of the first template
\* of each; it has 8 elements when the values are pairwise distinct and fewer
\* when some coincide; ("A", "A", "x.com") gives 4.
C23_SetInTemplateOrder ==
    GenerateReturned =>
        LET T == Templates(CallFirst, CallLast, CallDom) IN
        /\ Distinct(variations)
        /\ {variations[i] : i \in 1..Len(variations)} = {T[k] : k \in 1..8}
        /\ \A i, j \in 1..Len(variations) :
               i < j => FirstTemplate(T, variations[i]) < FirstTemplate(T, variations[j])
        /\ (Distinct(T) <=> Len(variations) = 8)
        /\ Len(variations) <= 8
        /\ IsCall(<<"A">>, <<"A">>, XCom) => Len(variations) = 4

C23_Witness ==
    /\ GenerateReturned
    /\ IsCall(<<"A">>, <<"A">>, XCom)
    /\ variations = << <<"a", "@">> \o XCom, <<"a", ".", "a", "@">> \o XCom,
                       <<"a", "a", "@">> \o XCom, <<"a", "_", "a", "@">> \o XCom >>

C25_DomainIsHost ==
    GenerateReturned =>
        \A i \in 1..Len(variations) : DomainOf(variations[i]) = toLowerCase(call.shape.host)

\* C26: the syntax check reports the first rule that fails, in the order
\* non-empty, exactly one @, local part not empty, domain part not empty,
\* a dot in the domain, grammar; an address with no @ gets the missing-@
\* reason and one with two or more the too-many-@ reason.
C26_FirstFailingRule ==
    pc # "idle" =>
        LET at == Count(email, "@")
            parts == Split(email, "@")
            reason == verdict.syntax.message
        IN  /\ email = <<>> => reason = "Email is empty or invalid type"
            /\ (email # <<>> /\ at = 0) => reason = "Missing @ symbol"
            /\ at >= 2 => reason = "Too many @ symbols"
            /\ (at = 1 /\ parts[1] = <<>>) => reason = "Local part (before @) is empty"
            /\ (at = 1 /\ parts[1] # <<>> /\ parts[2] = <<>>) =>
                   reason = "Domain part (after @) is empty"
            /\ (at = 1 /\ parts[1] # <<>> /\ parts[2] # <<>> /\ ~Includes(parts[2], ".")) =>
                   reason = "Domain must contain at least one dot"
            /\ (at = 1 /\ parts[1] # <<>> /\ parts[2] # <<>> /\ Includes(parts[2], ".")) =>
                   reason \in {"Valid email format", "Invalid email format"}
            /\ verdict.syntax.valid = (IF reason = "Valid email format" THEN "true" ELSE "false")

C26_Witness ==
    /\ Returned
    /\ email = <<"@">>
    /\ verdict.syntax = CheckResult("false", "Local part (before @) is empty")

\* C27: the syntax check is definitive for every value it is given, values
\* that are not strings and addresses on which the grammar library throws
\* included: valid is true or false, never null.
C27_SyntaxDefinitive ==
    (call.fn = "verifyEmailSyntax" /\ fpc = "returned") =>
        /\ syntaxResult.valid \in {"true", "false"}
        /\ syntaxResult.message # ""
        /\ call.value.type # "string" => syntaxResult.valid = "false"
        /\ (call.lib = "throws" /\ call.value.type = "string"
                /\ ReachesGrammar(call.value.str)) =>
               syntaxResult = CheckResult("false", "Validation error: unexpected")

C27_Witness ==
    /\ fpc = "returned"
    /\ call.lib = "throws"
    /\ call.value = [type |-> "string", str |-> ValidEmail]
    /\ syntaxResult.valid = "false"

\* C28: the syntax result of a verdict is the result of the syntax check on
\* the address alone, the same at every level and whatever the DNS check and
\* the SMTP check returned.
C28_SyntaxOfAddressOnly ==
    pc # "idle" => verdict.syntax = verifyEmailSyntax(email)

C28_Witness ==
    /\ Returned
    /\ level = "smtp"
    /\ verdict.dns.valid = "false"
    /\ Present(verdict.smtp)
    /\ verdict.syntax = CheckResult("true", "Valid email format")

JaneSmith == [firstName |-> Jane, lastName |-> Smith, domain |-> ExampleCom]

\* the domain of the request has no MX record
NoMxRecord ==
    \/ network.mx.ok /\ Len(network.mx.records) = 0
    \/ ~network.mx.ok /\ network.mx.error.code = "ENODATA"

JaneSmithAtDns ==
    /\ epc = "responded"
    /\ request.endpoint = "generate"
    /\ request.people = <<JaneSmith>>
    /\ request.level = "dns"
    /\ NoMxRecord

\* C29 as stated: ("Jane", "Smith", "example.com") at level dns, the domain
\* having no MX record, gives 8 results, each with overallValid false and a
\* dns result that is a fail with the reason "no mail server".
C29_NoMailServerReason ==
    JaneSmithAtDns =>
        /\ Len(results) = 8
        /\ \A i \in 1..Len(results) :
               /\ results[i].overallValid = FALSE
               /\ results[i].dns = CheckResult("false", "no mail server")

\* C29 (amended): the same request gives 8 results, each with overallValid
\* false and a dns result that is a fail; its reason is "No MX records
\* found" when the resolver returned no record and "DNS error: " with the
\* resolver's message when the resolver reported the absence as an error.
C29_NoMxRecordReason ==
    JaneSmithAtDns =>
        /\ Len(results) = 8
        /\ \A i \in 1..Len(results) :
               /\ results[i].overallValid = FALSE
               /\ results[i].syntax.valid = "true"
               /\ results[i].dns =
                      CheckResult("false",
                          IF network.mx.ok THEN "No MX records found"
                          ELSE "DNS error: " \o network.mx.error.message)
               /\ ~Present(results[i].smtp)

C29_Witness ==
    /\ JaneSmithAtDns
    /\ network.mx.ok
    /\ Len(results) = 8
    /\ results[8].email =
           <<"s", "m", "i", "t", "h", ".", "j", "a", "n", "e", "@">> \o ExampleCom
    /\ results[8].dns = CheckResult("false", "No MX records found")

NonEmpty(entry) == Len(entry) > 0

\* C30 as stated: the verify endpoint returns one result for every entry of
\* the text that is not empty after trimming, in the order of the text,
\* entries that are no addresses included.
C30_ResultPerEntry ==
    (epc = "responded" /\ request.endpoint = "verify") =>
        [i \in 1..Len(results) |-> results[i].email]
            = SelectSeq(TrimAll(SplitEntries(request.emails)), NonEmpty)

\* the probe resolved by one of its own exits: the timer, the error callback,
\* the catch of the data callback or the classification of the RCPT reply
ProbeResolved == hasResolved /\ resolvedBy \in {"timeout", "error", "catch", "data"}

\* C33: once a probe has resolved, by timeout, error, protocol error or
\* RCPT classification, no later event changes its state or causes output:
\* data and error events after resolution write nothing, do not advance
\* step and do not resolve again, and the timer does nothing after it.
C33_ResolvedIsFinal ==
    [][(ProbeResolved /\ pc' # "idle") =>
          /\ ProbeResolved'
          /\ UNCHANGED <<step, written, socket, timer, resolveCount, probeResult,
                         resolvedBy, recv, verdict, pc>>]_vars

C33_Witness ==
    /\ ProbeResolved
    /\ resolvedBy = "error"
    /\ step = 2
    /\ written = <<"HELO", "MAIL FROM">>
    /\ socket = "open"
    /\ late >= 2

\* the commands of the probe, in protocol order
Commands == <<"HELO", "MAIL FROM", "RCPT TO", "QUIT">>

\* the position of a command in the protocol order
Rank(c) == CHOOSE i \in 1..Len(Commands) : Commands[i] = c

\* C34: during a probe step never decreases and stays within 0..3, and each
\* of HELO, MAIL FROM, RCPT TO and QUIT is written at most once and only in
\* this relative order.
C34_StepsAndCommandsInOrder ==
    /\ [](/\ step \in 0..3
          /\ \A i \in 1..Len(written) : Includes(Commands, written[i])
          /\ \A i, j \in 1..Len(written) : i < j => Rank(written[i]) < Rank(written[j]))
    /\ [][pc' # "idle" => step' >= step]_vars

C34_Witness ==
    /\ step = 3
    /\ written = Commands
    /\ Len(recv) > 4

\* C35: a definitive probe result, valid true or false, is produced only by
\* a data event in step 3; every result resolved in step 0, 1 or 2, by any
\* event, has valid = null.
C35_DefinitiveOnlyInStep3 ==
    Present(probeResult) =>
        /\ probeResult.valid \in {"true", "false"} =>
               /\ resolvedBy = "data"
               /\ step = 3
               /\ Includes(written, "RCPT TO")
        /\ step < 3 => probeResult.valid = "null"

C35_Witness ==
    /\ resolvedBy = "catch"
    /\ step = 2
    /\ probeResult = CatchResult
    /\ verdict.smtp.valid = "null"

\* C32: for the same request body and the same behaviour of the resolver
\* and of the mail host, the Express routes /api/verify and /api/generate
\* return the results list the Netlify verify and generate handlers return.
C32_ExpressAsNetlify ==
    epc = "responded" =>
        /\ request.endpoint = "verify" => results = ExpressVerify(request, network)
        /\ request.endpoint = "generate" => results = ExpressGenerate(request, network)

C32_Witness ==
    /\ epc = "responded"
    /\ request.endpoint = "verify"
    /\ request.level = NoLevel
    /\ request.emails \in ExampleTexts
    /\ Len(results) = 2
    /\ results[1].overallValid
    /\ results[2].overallValid
    /\ ~Present(results[2].dns)
    /\ ~network.mx.ok

\* the company of the lookup, as the caches compare names
LookupName == toLowerCase(lookup.company)

\* C31 as stated: after one lookup of a company, any later lookup of the
\* same company name, compared without regard to case and whatever the
\* first lookup's outcome, makes no AI or search API call and returns the
\* same domain.
C31_LookupsRemembered ==
    (lookup.pc = "returned" /\ lookup.repeat) =>
        /\ lookup.apiCalls = 0
        /\ lookup.returned = remembered[LookupName]

\* C37 as stated: the parse cache returns a stored people list only for the
\* input that produced it, also when two inputs share their first 100
\* characters.
C37_HitOnlyForSameInput ==
    smart.hit => parsedFrom[ParseKey(smart.input)] = smart.input

\* C38 as stated: handling a request leaves the entries of the parse cache
\* unchanged: a cache hit for an input returns the people records of the
\* original parse of that input.
C38_CacheEntriesUnchanged ==
    (smart.hit /\ parsedFrom[ParseKey(smart.input)] = smart.input) =>
        smart.parsed = originalParse[ParseKey(smart.input)]

\* the sources of the hybrid lookup, in their order
Sources == <<"ai", "search", "guess">>

\* C39: the hybrid lookup tries its sources in a fixed order and always
\* answers: the search is consulted only after the AI lookup returned
\* nothing or a value without a dot, the guess is used only after the
\* search returned nothing too, and the domain returned is a string, never
\* null.
C39_SourcesInOrder ==
    /\ lookup.trace = SubSeq(Sources, 1, Len(lookup.trace))
    /\ Includes(lookup.trace, "search") =>
           (lookup.ai = Null \/ ~Includes(lookup.ai, "."))
    /\ Includes(lookup.trace, "guess") =>
           (lookup.search = Null /\ lookup.returned = Guess(lookup.company))
    /\ lookup.pc = "returned" =>
           /\ lookup.returned # Null
           /\ Len(lookup.returned) > 0
           /\ \A i \in 1..Len(lookup.returned) : Len(lookup.returned[i]) = 1

C39_Witness ==
    /\ lookup.pc = "returned"
    /\ lookup.company = BigCo
    /\ lookup.trace = Sources
    /\ lookup.ai = <<"u", "n", "k", "n", "o", "w", "n">>
    /\ lookup.returned = <<"b", "i", "g", "c", "o", ".", "c", "o", "m">>
    /\ smart.candidates # <<>>

\* resolveMx calls and connections the current iteration has started
Started == mxCalls + smtpConns

\* those that have settled
Settled ==
    (IF dnsAnswer # NoAnswer THEN 1 ELSE 0) + (IF smtpAnswer # NoAnswer THEN 1 ELSE 0)
        + (IF resolvedBy # "none" THEN 1 ELSE 0)

\* the candidates of the people the outer loop has taken
RECURSIVE CandidatesOf(_)
CandidatesOf(list) ==
    IF list = <<>> THEN <<>>
    ELSE generateEmailVariations(Head(list).firstName, Head(list).lastName,
                                 Head(list).domain) \o CandidatesOf(Tail(list))

\* the candidates the loop has been given so far, in order
Candidates ==
    IF request.endpoint = "verify" THEN ParseEmails(request.emails)
    ELSE CandidatesOf(SubSeq(request.people, 1, personIndex))

\* C36: within one handler invocation the candidates are verified one at a
\* time: no DNS or SMTP operation for a candidate starts before all checks
\* of the one before it have finished, at most one network operation is in
\* flight, and the results list holds exactly one result per candidate, in
\* candidate order.
C36_OneAtATime ==
    epc \in {"loop", "responded"} =>
        /\ Started - Settled \in {0, 1}
        /\ pc \in {"idle", "done"} => Started = Settled
        /\ [i \in 1..Len(results) |-> results[i].email] \o emailList = Candidates
        /\ pc # "idle" => email = Head(emailList)
        /\ epc = "responded" => (pc = "idle" /\ Len(results) = Len(Candidates))

C36_Witness ==
    /\ request.level = "dns"
    /\ Len(results) = 1
    /\ results[1].email = ValidEmail
    /\ Present(results[1].dns)
    /\ pc = "dns"
    /\ email = <<"b", "@">> \o XCom
    /\ Started - Settled = 1

====
